---- MODULE Spec2Model ----
(***************************************************************************)
(* A model of the container runtime: the registry pull (pullImage with its  *)
(* auth handshake, manifest resolution and the concurrent layer fetcher     *)
(* writing through to the on-disk layer cache) and the process isolator     *)
(* (main: scratch directory, chroot, child process, exit code).            *)
(*                                                                         *)
(* Spec       : pullImage, run any number of times against one cache dir.  *)
(* SpecMain   : main(), from argument checking to process exit.            *)
(* SpecParse  : sanitiseImageReference and the first request, per reference.*)
(* SpecDecode : the decoding of the layers array of a concrete manifest.   *)
(* SpecUntar  : untar, one archive entry at a time, into a file tree.      *)
(***************************************************************************)
EXTENDS Integers, Sequences, FiniteSets, TLC

\* ------------------------------------------------------------------------
\* Bounds of the model
\* ------------------------------------------------------------------------

\* longest layers array of a concrete manifest
MaxLayers == 2

\* longest manifests array of an index
MaxIndex == 2

\* longest free part of an image reference
MaxRefLen == 5

\* most entries in the archives handed to untar
MaxEntries == 2

\* ------------------------------------------------------------------------
\* Values
\* ------------------------------------------------------------------------

\* the nil error
Nil == "nil"

\* a nil *Auth
NilAuth == [isNil |-> TRUE, Token |-> ""]

\* no response in hand
NoResp == [status |-> 0, www |-> "absent", ct |-> "missing", index |-> <<>>]

\* a nil *Manifest
NoManifest ==
    [digest |-> 0, mediaType |-> "", platform |-> [os |-> "", architecture |-> ""]]

\* a file that does not exist
NoFile == [exists |-> FALSE, data |-> <<>>]

\* no file open
NoStem == [enc |-> "none", sum |-> <<>>]

\* Strings are sequences of one-character strings.
DefaultRegistry == <<"d", "o", "c", "k", "e", "r", ".", "i", "o">>

LibraryPrefix == <<"l", "i", "b", "r", "a", "r", "y", "/">>

LatestTag == <<"l", "a", "t", "e", "s", "t">>

\* The registry table: docker.io is its only key.
Registries == {DefaultRegistry}

maxRetries == 5

\* registryCache is the zero value: its Layers map is nil and nothing ever
\* stores into it, so the set of digests it holds is empty.
registryCacheLayers == {}

\* Media types
DockerImageTypeDistributionManifestV2 == "application/vnd.docker.distribution.manifest.v2+json"

DockerImageTypeDistributionListManifestV2 == "application/vnd.docker.distribution.manifest.list.v2+json"

OCIImageTypeManifestV1 == "application/vnd.oci.image.manifest.v1+json"

OciImageIndexV1 == "application/vnd.oci.image.index.v1+json"

OtherMediaType == "application/json"

\* runtime.GOOS, runtime.GOARCH of the host
GOOS == "linux"

GOARCH == "amd64"

\* ------------------------------------------------------------------------
\* strings package
\* ------------------------------------------------------------------------

\* strings.IndexRune: the first index (0-based) of ch in s, or -1
IndexRune(s, ch) ==
    IF \E i \in 1..Len(s) : s[i] = ch
    THEN (CHOOSE i \in 1..Len(s) : s[i] = ch /\ \A j \in 1..(i - 1) : s[j] # ch) - 1
    ELSE -1

\* strings.ContainsAny
ContainsAny(s, chars) == \E i \in 1..Len(s) : s[i] \in chars

HasPrefixNever(s, p) == FALSE

\* strings.HasPrefix
HasPrefix(s, p) == Len(s) >= Len(p) /\ SubSeq(s, 1, Len(p)) = p

\* strings.Cut: split around the FIRST occurrence of sep
Cut(s, sep) ==
    LET i == IndexRune(s, sep)
    IN  IF i = -1
        THEN [before |-> s, after |-> <<>>, found |-> FALSE]
        ELSE [before |-> SubSeq(s, 1, i), after |-> SubSeq(s, i + 2, Len(s)), found |-> TRUE]

sanitiseImageReference(ref) ==
    LET i == IndexRune(ref, "/")
        useDefault == i = -1 \/ ~ContainsAny(SubSeq(ref, 1, i), {".", ":"})
        registryDomain == IF useDefault THEN DefaultRegistry ELSE SubSeq(ref, 1, i)
        rest == IF useDefault THEN ref ELSE SubSeq(ref, i + 2, Len(ref))
        named == IF ~HasPrefix(rest, LibraryPrefix) /\ registryDomain = DefaultRegistry
                 THEN LibraryPrefix \o rest
                 ELSE rest
        c == Cut(named, ":")
    IN  [ref |-> c.before,
         registry |-> registryDomain,
         tag |-> IF c.found THEN c.after ELSE LatestTag]

\* ------------------------------------------------------------------------
\* Digests.  SHA-256 is taken collision free: the sum of a byte string is
\* represented by the byte string itself, tagged with the encoding in which
\* the program holds it, so that two strings are equal exactly when they
\* have the same encoding and come from the same bytes.
\* ------------------------------------------------------------------------

\* string(hash.Sum(nil)): the 32 raw bytes of the sum
RawSum(content) == [enc |-> "raw", sum |-> content]

\* the 64 hexadecimal characters of the sum
HexSum(content) == [enc |-> "hex", sum |-> content]

\* the descriptor digest "sha256:<hex>" of a blob
DigestOf(content) == [enc |-> "sha256:hex", sum |-> content]

\* The forms the digest text of a descriptor may have: "sha256:" followed by
\* 64 lowercase hex characters, by 64 uppercase ones, by a shorter or non-hex
\* text, or by nothing; the well-formed text with other text before it; a
\* text without "sha256:" in it; the empty text
DigestForms ==
    {"sha256:hex", "sha256:HEX", "sha256:short", "sha256:", "x-sha256:hex", "md5:hex", ""}

\* strings.SplitAfterN(digest, "sha256:", 2): a text without "sha256:" in it
\* comes back whole; any other is cut after the first "sha256:", wherever it is
SplitAfterSha256(digest) ==
    CASE digest.enc = "sha256:hex" ->
            <<[enc |-> "sha256:", sum |-> <<>>], [enc |-> "hex", sum |-> digest.sum]>>
      [] digest.enc = "sha256:HEX" ->
            <<[enc |-> "sha256:", sum |-> <<>>], [enc |-> "HEX", sum |-> digest.sum]>>
      [] digest.enc = "sha256:short" ->
            <<[enc |-> "sha256:", sum |-> <<>>], [enc |-> "short", sum |-> digest.sum]>>
      [] digest.enc = "sha256:" ->
            <<[enc |-> "sha256:", sum |-> <<>>], [enc |-> "", sum |-> <<>>]>>
      [] digest.enc = "x-sha256:hex" ->
            <<[enc |-> "x-sha256:", sum |-> <<>>], [enc |-> "hex", sum |-> digest.sum]>>
      [] OTHER -> <<digest>>

\* ImageLayer.UnmarshalJSON: one element of the layers array, with the error
\* it returns
UnmarshalLayer(desc) ==
    LET checksum == SplitAfterSha256(desc.digest)
    IN  IF Len(checksum) # 2
        THEN [err |-> "unexpected format for digest",
              Digest |-> desc.digest, Size |-> desc.size, Sha256Sum |-> desc.digest]
        ELSE [err |-> Nil,
              Digest |-> desc.digest, Size |-> desc.size, Sha256Sum |-> checksum[2]]

DecodeLayersReversed(descs) ==
    [i \in 1..Len(descs) |-> UnmarshalLayer(descs[Len(descs) + 1 - i])]

\* json.Unmarshal of the layers array of the concrete manifest, in array order
DecodeLayers(descs) == [i \in 1..Len(descs) |-> UnmarshalLayer(descs[i])]


\* ------------------------------------------------------------------------
\* The registry and the cache directory (the environment)
\* ------------------------------------------------------------------------

\* sequences over S of length 0..n
SeqsUpTo(S, n) == UNION {[1..k -> S] : k \in 0..n}

\* the contents of the layer blobs an image may be made of
LayerContents == {<<1>>, <<2, 2>>}

\* byte streams a blob GET may deliver: the right bytes, wrong bytes of the
\* same length, and streams shorter or longer than the descriptor's size
Bodies == {<<1>>, <<2>>, <<2, 2>>}

Descriptors == {[digest |-> DigestOf(c), size |-> Len(c)] : c \in LayerContents}

\* layers arrays a concrete manifest may carry (a digest may repeat)
Images == SeqsUpTo(Descriptors, MaxLayers)

\* file name stems <layer_id> under ImageLayersPath
Stems == {HexSum(c) : c \in LayerContents}

Platforms ==
    {[os |-> "linux", architecture |-> "amd64"],
     [os |-> "linux", architecture |-> "arm64"],
     [os |-> "windows", architecture |-> "amd64"]}

EntryKinds ==
    {[mediaType |-> mt, platform |-> [os |-> GOOS, architecture |-> GOARCH]] :
        mt \in {DockerImageTypeDistributionManifestV2, OCIImageTypeManifestV1, OtherMediaType}}
    \cup
    {[mediaType |-> DockerImageTypeDistributionManifestV2, platform |-> p] : p \in Platforms}

\* manifests arrays of an index; the digest of an entry names its position
Indexes ==
    {[i \in 1..Len(s) |->
        [digest |-> i, mediaType |-> s[i].mediaType, platform |-> s[i].platform]] :
     s \in SeqsUpTo(EntryKinds, MaxIndex)}

\* Content-Type header values: one accepted value, or "missing" for a header
\* that is absent or carries more than one value
ContentTypes ==
    {DockerImageTypeDistributionListManifestV2, OciImageIndexV1, OtherMediaType, "missing"}

Statuses == {200, 401}

\* Www-Authenticate of a response: absent, present but not matching
\* bearerRegex, or a Bearer challenge with realm, service and scope
Challenges == {"absent", "malformed", "bearer"}

\* image references given on the command line
Refs == {<<"a">>, <<"a", ":", "t">>, <<"q", ".", "i", "/", "s">>}

\* ------------------------------------------------------------------------
\* Pure parts of the pull
\* ------------------------------------------------------------------------

matchesEitherField(m) == m.platform.os = GOOS \/ m.platform.architecture = GOARCH

\* the condition of the loop of getDigestForSystem
matchesSystem(m) == m.platform.os = GOOS /\ m.platform.architecture = GOARCH

\* the loop of getDigestForSystem from the i-th entry on
RECURSIVE firstMatchFrom(_, _)
firstMatchFrom(manifests, i) ==
    IF i > Len(manifests) THEN NoManifest
    ELSE IF matchesSystem(manifests[i]) THEN manifests[i]
    ELSE firstMatchFrom(manifests, i + 1)

\* RegistryResponse.getDigestForSystem: the manifest selected, or nil with
\* "no digest found that supports this architecture or system"
getDigestForSystem(manifests) == firstMatchFrom(manifests, 1)

\* the condition under which pullImage re-authenticates
needsAuth(status, a) == (status > 400 /\ status < 500) \/ a.isNil

\* os.OpenFile(O_WRONLY|O_CREATE) followed by writes from offset 0: the file
\* is not truncated, so bytes of an older, longer file stay behind the new ones
Overwrite(old, body) ==
    [exists |-> TRUE,
     data |-> IF Len(old.data) <= Len(body)
              THEN body
              ELSE body \o SubSeq(old.data, Len(body) + 1, Len(old.data))]

\* RegistryCache.hasLayer: Nil (no error) on a hit, else the error
hasLayer(fs, l) ==
    IF l.Digest \in registryCacheLayers THEN Nil
    ELSE IF ~fs[l.Sha256Sum].exists THEN "open"
    ELSE IF RawSum(fs[l.Sha256Sum].data) # l.Digest THEN "digest mismatch"
    ELSE Nil

copyVerdictIgnoringSize(bytesWritten, l) == Nil

\* copyTo's verdict once io.Copy has returned bytesWritten
copyVerdict(bytesWritten, l) ==
    IF bytesWritten # l.Size THEN "size" ELSE Nil

retryLoopContinuesInclusive(rc) == rc <= maxRetries

\* the condition of the retry loop of pullImage
retryLoopContinues(rc) == rc < maxRetries


\* ------------------------------------------------------------------------
\* untar: paths, the file tree and the archive
\* ------------------------------------------------------------------------

\* A path is the sequence of its components from the root.  dst, the
\* directory untar extracts into:
UntarDst == <<"s">>

\* the paths below the root and below dst that an entry can reach
UntarPaths == {<<"s", "a">>, <<"s", "b">>, <<"a">>, <<"b">>}

\* filepath.Clean of a rooted path: empty and "." components are dropped and
\* ".." removes the component before it (at the root it is dropped)
RECURSIVE filepathClean(_, _)
filepathClean(done, rest) ==
    IF rest = <<>> THEN done
    ELSE IF Head(rest) \in {"", "."} THEN filepathClean(done, Tail(rest))
    ELSE IF Head(rest) = ".."
         THEN filepathClean(IF done = <<>> THEN <<>> ELSE SubSeq(done, 1, Len(done) - 1),
                            Tail(rest))
    ELSE filepathClean(Append(done, Head(rest)), Tail(rest))

\* filepath.Join(dir, name): the two are joined with a separator and the
\* result is cleaned as a whole
filepathJoin(dir, name) == filepathClean(<<>>, dir \o name)

\* header.Name of an entry: a, b, ../a and /a (an absolute name begins with
\* an empty component)
EntryNames == {<<"a">>, <<"b">>, <<"..", "a">>, <<"", "a">>}

\* header.Linkname of a symlink entry: b and /a
Linknames == {<<"b">>, <<"", "a">>}

\* payloads of regular-file entries
TarPayloads == {<<1>>, <<2, 2>>}

\* tar headers with their payload
TarEntries ==
    {[name |-> n, typeflag |-> "dir", payload |-> <<>>, linkname |-> <<>>] :
        n \in EntryNames}
    \cup {[name |-> n, typeflag |-> "reg", payload |-> c, linkname |-> <<>>] :
        n \in EntryNames, c \in TarPayloads}
    \cup {[name |-> n, typeflag |-> "symlink", payload |-> <<>>, linkname |-> l] :
        n \in EntryNames, l \in Linknames}

\* nothing at a path
NoNode == [kind |-> "none", data |-> <<>>, link |-> <<>>]

\* what following a symlink that leads back to itself gives
ELoop == <<"..">>

\* the path a symlink at p with text l points to: l itself when absolute,
\* else l taken from the directory of p
linkTarget(p, l) ==
    IF l # <<>> /\ Head(l) = ""
    THEN filepathClean(<<>>, l)
    ELSE filepathClean(<<>>, SubSeq(p, 1, Len(p) - 1) \o l)

\* the path the kernel reaches from p when it follows symlinks
RECURSIVE resolveFrom(_, _, _)
resolveFrom(fs, p, fuel) ==
    IF p \notin UntarPaths THEN p
    ELSE IF fs[p].kind # "link" THEN p
    ELSE IF fuel = 0 THEN ELoop
    ELSE resolveFrom(fs, linkTarget(p, fs[p].link), fuel - 1)

resolve(fs, p) == resolveFrom(fs, p, Cardinality(UntarPaths))

\* what is at a path: dst and the root are directories
kindAt(fs, p) ==
    IF p = ELoop THEN "eloop"
    ELSE IF p \in UntarPaths THEN fs[p].kind
    ELSE "dir"

\* os.Stat(p) returns no error: following symlinks leads to something
statOk(fs, p) == kindAt(fs, resolve(fs, p)) \in {"dir", "file"}


\* ------------------------------------------------------------------------
\* State
\* ------------------------------------------------------------------------

VARIABLES
    files,                \* the cache directory: stem -> file
    image,                \* the layers array of the manifest the registry hosts
    loopVarPerIteration,  \* the build gives each loop iteration its own variable
    ppc,                  \* where pullImage is
    auth,                 \* pullImage's auth: NilAuth or a token
    firstStatus,          \* status of the answer to the first index request
    resp,                 \* pullImage's resp: the index response in hand
    manifest,             \* the index entry selected
    layers,               \* the decoded layers of the concrete manifest
    retryCount,           \* the retry loop's counter
    fetchCalls,           \* calls of fetchLayers made by this pull
    loopIdx,              \* iterations of the spawn loop done in this batch
    tpc,                  \* where each layer goroutine is
    rcv,                  \* the body of the blob response a goroutine holds
    wr,                   \* the stem of the file a goroutine has open for writing
    successCount,         \* successCount of the running batch
    tokenExchanges,       \* requests sent to the realm by this pull
    indexRequests,        \* index requests sent by this pull
    manifestRequests,     \* concrete-manifest requests sent by this pull
    blobGets,             \* blob GETs sent by this pull
    result,               \* what pullImage returned: [err, layers]
    warm,                 \* every layer of the image was cached when the pull began
    downloaded,           \* stems whose download counted a success in this pull
    mpc,                  \* where main is
    argv,                 \* os.Args
    debugCapabilities,    \* the -X main.debugCapabilities build flag is set
    scratch,              \* the scratch directory on the host
    root,                 \* the root directory of the process
    helper,               \* docker-explorer is in the scratch directory
    child,                \* the child command
    exitStatus,           \* the exit status of the process
    imageReference,       \* the reference string handed to pullImage
    parsed,               \* what sanitiseImageReference returned for it
    requested,            \* the first index request: "no", "sent" or "error"
    manifestLayers,       \* the layers array of a concrete manifest body
    dockerManifest,       \* what json.Unmarshal made of that body
    tarEntries,           \* the entries of the archive untar reads, in order
    tarPos,               \* entries untar has handled
    fsys,                 \* the file tree: path -> node
    untarResult,          \* "running", or what untar returned: Nil or "err"
    failedOps             \* a filesystem operation of this untar call has failed

pullVars ==
    <<files, image, loopVarPerIteration, ppc, auth, firstStatus, resp, manifest, layers,
      retryCount, fetchCalls, loopIdx, tpc, rcv, wr, successCount, tokenExchanges,
      indexRequests, manifestRequests, blobGets, result, warm, downloaded>>

mainVars == <<mpc, argv, debugCapabilities, scratch, root, helper, child, exitStatus>>

\* the variables of the specifications of the parser and of the decoder
pureVars == <<imageReference, parsed, requested, manifestLayers, dockerManifest>>

untarVars == <<tarEntries, tarPos, fsys, untarResult, failedOps>>

vars == <<pullVars, mainVars, pureVars, untarVars>>

Tasks == 1..MaxLayers

\* a nil *[]ImageLayer, and pullImage's result before it has returned
NilLayers == [isNil |-> TRUE, list |-> <<>>]

NoResult == [err |-> Nil, layers |-> NilLayers]

\* every layer of the manifest is in the cache directory as <layer_id>.tar.gz
\* with content whose SHA-256 is the descriptor's digest
Warm(fs, img) ==
    \A i \in 1..Len(img) :
        LET stem == UnmarshalLayer(img[i]).Sha256Sum
        IN  fs[stem].exists /\ DigestOf(fs[stem].data) = img[i].digest

\* the variables of one call of pullImage, before it starts
PullReset ==
    /\ ppc' = "start"
    /\ auth' = NilAuth
    /\ firstStatus' = 0
    /\ resp' = NoResp
    /\ manifest' = NoManifest
    /\ layers' = <<>>
    /\ retryCount' = 0
    /\ fetchCalls' = 0
    /\ loopIdx' = 0
    /\ tpc' = [t \in Tasks |-> "idle"]
    /\ rcv' = [t \in Tasks |-> <<>>]
    /\ wr' = [t \in Tasks |-> NoStem]
    /\ successCount' = 0
    /\ tokenExchanges' = 0
    /\ indexRequests' = 0
    /\ manifestRequests' = 0
    /\ blobGets' = 0
    /\ result' = NoResult
    /\ downloaded' = {}

\* nothing parsed yet
NoParse == [done |-> FALSE, ref |-> <<>>, registry |-> <<>>, tag |-> <<>>]

\* nothing decoded yet
NoDecode == [done |-> FALSE, err |-> Nil, Layers |-> <<>>]

PureIdle ==
    /\ imageReference = <<>>
    /\ parsed = NoParse
    /\ requested = "no"
    /\ manifestLayers = <<>>
    /\ dockerManifest = NoDecode

UntarIdle ==
    /\ tarEntries = <<>>
    /\ tarPos = 0
    /\ fsys = [p \in UntarPaths |-> NoNode]
    /\ untarResult = "running"
    /\ failedOps = FALSE

MainIdle ==
    /\ mpc = "start"
    /\ argv = <<>>
    /\ debugCapabilities = FALSE
    /\ scratch = "none"
    /\ root = "host"
    /\ helper = FALSE
    /\ child = [state |-> "none", code |-> 0]
    /\ exitStatus = 0

Init ==
    /\ files = [s \in Stems |-> NoFile]
    /\ image \in Images
    /\ loopVarPerIteration \in BOOLEAN
    /\ ppc = "start"
    /\ auth = NilAuth
    /\ firstStatus = 0
    /\ resp = NoResp
    /\ manifest = NoManifest
    /\ layers = <<>>
    /\ retryCount = 0
    /\ fetchCalls = 0
    /\ loopIdx = 0
    /\ tpc = [t \in Tasks |-> "idle"]
    /\ rcv = [t \in Tasks |-> <<>>]
    /\ wr = [t \in Tasks |-> NoStem]
    /\ successCount = 0
    /\ tokenExchanges = 0
    /\ indexRequests = 0
    /\ manifestRequests = 0
    /\ blobGets = 0
    /\ result = NoResult
    /\ warm = Warm(files, image)
    /\ downloaded = {}
    /\ MainIdle
    /\ PureIdle
    /\ UntarIdle

\* ------------------------------------------------------------------------
\* pullImage
\* ------------------------------------------------------------------------

\* pullImage returns (layers, err); a panic ends it with err = "panic"
Return(err, ls) ==
    /\ ppc' = "ret"
    /\ result' = [err |-> err, layers |-> ls]

\* lines 178-194: parse the reference, look the registry up, send the first
\* index request (auth is nil: no Authorization header)
PullStart ==
    /\ ppc = "start"
    /\ \E ref \in Refs :
         IF sanitiseImageReference(ref).registry \notin Registries
         THEN /\ Return("registry", NilLayers)
              /\ UNCHANGED indexRequests
         ELSE /\ indexRequests' = indexRequests + 1
              /\ ppc' = "index1"
              /\ UNCHANGED result
    /\ UNCHANGED <<files, image, loopVarPerIteration, auth, firstStatus, resp, manifest,
                   layers, retryCount, fetchCalls, loopIdx, tpc, rcv, wr, successCount,
                   tokenExchanges, manifestRequests, blobGets, warm, downloaded, mainVars, pureVars, untarVars>>

\* lines 194-203 and 469-494: the first answer arrives; with auth nil or a 4xx
\* status requestAuthenticationToken reads the challenge and constructAuth
\* sends the realm request.  Without a usable challenge auth stays nil and
\* line 208 dereferences it.
IndexResponse1 ==
    /\ ppc = "index1"
    /\ \/ /\ Return("net", NilLayers)
          /\ UNCHANGED <<resp, tokenExchanges>>
       \/ \E st \in Statuses, www \in Challenges :
            /\ resp' = [status |-> st, www |-> www, ct |-> "missing", index |-> <<>>]
            /\ IF needsAuth(st, auth)
               THEN IF www = "bearer"
                    THEN /\ tokenExchanges' = tokenExchanges + 1
                         /\ ppc' = "token"
                         /\ UNCHANGED result
                    ELSE /\ Return("panic", NilLayers)
                         /\ UNCHANGED tokenExchanges
               ELSE /\ ppc' = "readIndex"
                    /\ UNCHANGED <<result, tokenExchanges>>
    /\ UNCHANGED <<files, image, loopVarPerIteration, auth, firstStatus, manifest, layers,
                   retryCount, fetchCalls, loopIdx, tpc, rcv, wr, successCount,
                   indexRequests, manifestRequests, blobGets, warm, downloaded, mainVars, pureVars, untarVars>>

\* lines 494-507 and 204-210: the realm answers.  A transport error or a body
\* that is not JSON makes constructAuth fail, auth stays nil and line 208
\* dereferences it; any JSON body is accepted, with or without a token, and
\* the index request is sent again with "Bearer " + auth.Token.
TokenResponse ==
    /\ ppc = "token"
    /\ \E out \in {"net", "notjson", "notoken", "token"} :
         IF out \in {"net", "notjson"}
         THEN /\ Return("panic", NilLayers)
              /\ UNCHANGED <<auth, indexRequests>>
         ELSE /\ auth' = [isNil |-> FALSE, Token |-> IF out = "token" THEN "tok" ELSE ""]
              /\ indexRequests' = indexRequests + 1
              /\ ppc' = "index2"
              /\ UNCHANGED result
    /\ UNCHANGED <<files, image, loopVarPerIteration, firstStatus, resp, manifest, layers,
                   retryCount, fetchCalls, loopIdx, tpc, rcv, wr, successCount,
                   tokenExchanges, manifestRequests, blobGets, warm, downloaded, mainVars, pureVars, untarVars>>

AcceptedAnyType == ContentTypes

\* the Content-Type values the switch of pullImage accepts
AcceptedIndexTypes == {DockerImageTypeDistributionListManifestV2, OciImageIndexV1}

\* lines 210-219: the answer to the second index request.  Its transport
\* error is assigned to the inner err and lost; resp is then nil and line 219
\* dereferences it.  The status of the answer is not looked at.  The body
\* is represented only when its Content-Type lets it be decoded; the token
\* has been sent and the model does not read it again.
IndexResponse2 ==
    /\ ppc = "index2"
    /\ \/ /\ Return("panic", NilLayers)
          /\ UNCHANGED <<resp, firstStatus, auth>>
       \/ \E st \in Statuses, ct \in ContentTypes :
          \E idx \in (IF ct \in AcceptedIndexTypes THEN Indexes ELSE {<<>>}) :
            /\ firstStatus' = resp.status
            /\ resp' = [status |-> st, www |-> "absent", ct |-> ct, index |-> idx]
            /\ auth' = [isNil |-> FALSE, Token |-> ""]
            /\ ppc' = "readIndex"
            /\ UNCHANGED result
    /\ UNCHANGED <<files, image, loopVarPerIteration, manifest, layers, retryCount,
                   fetchCalls, loopIdx, tpc, rcv, wr, successCount, tokenExchanges,
                   indexRequests, manifestRequests, blobGets, warm, downloaded, mainVars, pureVars, untarVars>>

\* lines 219-274: check the Content-Type, select the platform's entry and,
\* for a Docker v2 manifest, send the request for the concrete manifest
ReadIndex ==
    /\ ppc = "readIndex"
    /\ LET m == getDigestForSystem(resp.index)
       IN  IF resp.ct \notin AcceptedIndexTypes
           THEN /\ Return("content-type", NilLayers)
                /\ UNCHANGED <<manifest, manifestRequests>>
           ELSE IF m = NoManifest
           THEN /\ Return("nomatch", NilLayers)
                /\ UNCHANGED <<manifest, manifestRequests>>
           ELSE IF m.mediaType = DockerImageTypeDistributionManifestV2
           THEN /\ manifest' = m
                /\ manifestRequests' = manifestRequests + 1
                /\ ppc' = "manifest"
                /\ UNCHANGED result
           ELSE IF m.mediaType = OCIImageTypeManifestV1
           THEN /\ manifest' = m
                /\ Return("not implemented", NilLayers)
                /\ UNCHANGED manifestRequests
           ELSE /\ manifest' = m
                /\ Return("unsupported", NilLayers)
                /\ UNCHANGED manifestRequests
    /\ UNCHANGED <<files, image, loopVarPerIteration, auth, firstStatus, resp, layers,
                   retryCount, fetchCalls, loopIdx, tpc, rcv, wr, successCount,
                   tokenExchanges, indexRequests, blobGets, warm, downloaded, mainVars, pureVars, untarVars>>

\* fetchLayers begins: a new WaitGroup and successCount, no goroutine yet
BeginBatch ==
    /\ fetchCalls' = fetchCalls + 1
    /\ loopIdx' = 0
    /\ successCount' = 0
    /\ tpc' = [t \in Tasks |-> "idle"]

\* lines 248-285: the concrete manifest arrives and is decoded; the retry
\* loop starts with the first call of fetchLayers.  resp and manifest are
\* not read from here on and are dropped.
ManifestResponse ==
    /\ ppc = "manifest"
    /\ \/ /\ \E e \in {"net", "decode"} : Return(e, NilLayers)
          /\ UNCHANGED <<layers, retryCount, fetchCalls, loopIdx, tpc, successCount,
                         resp, firstStatus, manifest>>
       \/ LET ls == DecodeLayers(image)
          IN  IF \E i \in 1..Len(ls) : ls[i].err # Nil
              THEN /\ Return("decode", NilLayers)
                   /\ UNCHANGED <<layers, retryCount, fetchCalls, loopIdx, tpc,
                                  successCount, resp, firstStatus, manifest>>
              ELSE IF /\ manifest.platform.os # GOOS
                      /\ manifest.platform.architecture # GOARCH
              THEN /\ Return("platform", NilLayers)
                   /\ UNCHANGED <<layers, retryCount, fetchCalls, loopIdx, tpc,
                                  successCount, resp, firstStatus, manifest>>
              ELSE /\ layers' = ls
                   /\ retryCount' = 0
                   /\ BeginBatch
                   /\ ppc' = "fetch"
                   /\ resp' = NoResp
                   /\ firstStatus' = 0
                   /\ manifest' = NoManifest
                   /\ UNCHANGED result
    /\ UNCHANGED <<files, image, loopVarPerIteration, auth, rcv, wr, tokenExchanges,
                   indexRequests, manifestRequests, blobGets, warm, downloaded, mainVars, pureVars, untarVars>>


\* ------------------------------------------------------------------------
\* fetchLayers: one goroutine per layer
\* ------------------------------------------------------------------------

\* The descriptor goroutine t reads through its pointer l.  The goroutine is
\* handed &layer, the address of the loop variable: a build that gives each
\* iteration its own variable leaves the t-th layer there; a build with one
\* variable for the whole loop lets t read whatever the loop has stored last.
LayerOf(t) == IF loopVarPerIteration THEN layers[t] ELSE layers[loopIdx]

\* lines 366-393: one iteration of the loop: wg.Add(1) and go func
Spawn ==
    /\ ppc = "fetch"
    /\ loopIdx < Len(layers)
    /\ loopIdx' = loopIdx + 1
    /\ tpc' = [tpc EXCEPT ![loopIdx + 1] = "lookup"]
    /\ UNCHANGED <<files, image, loopVarPerIteration, ppc, auth, firstStatus, resp,
                   manifest, layers, retryCount, fetchCalls, rcv, wr, successCount,
                   tokenExchanges, indexRequests, manifestRequests, blobGets, result,
                   warm, downloaded, mainVars, pureVars, untarVars>>

\* lines 371-374: the cache lookup; a hit counts as a success and ends the task
TaskLookup(t) ==
    /\ ppc = "fetch"
    /\ tpc[t] = "lookup"
    /\ IF hasLayer(files, LayerOf(t)) = Nil
       THEN /\ successCount' = successCount + 1
            /\ tpc' = [tpc EXCEPT ![t] = "done"]
       ELSE /\ tpc' = [tpc EXCEPT ![t] = "get"]
            /\ UNCHANGED successCount
    /\ UNCHANGED <<files, image, loopVarPerIteration, ppc, auth, firstStatus, resp,
                   manifest, layers, retryCount, fetchCalls, loopIdx, rcv, wr,
                   tokenExchanges, indexRequests, manifestRequests, blobGets, result,
                   warm, downloaded, mainVars, pureVars, untarVars>>

\* lines 376-386 and copyTo, lines 419-430: the blob GET; a transport error
\* ends the task; any response (its status is not looked at) is handed to
\* copyTo, which creates the cache file if it does not exist and opens it for
\* writing without truncating it
TaskGet(t) ==
    /\ ppc = "fetch"
    /\ tpc[t] = "get"
    /\ blobGets' = blobGets + 1
    /\ \/ /\ tpc' = [tpc EXCEPT ![t] = "done"]
          /\ UNCHANGED <<rcv, wr, files>>
       \/ \E body \in Bodies :
            LET stem == LayerOf(t).Sha256Sum
            IN  /\ rcv' = [rcv EXCEPT ![t] = body]
                /\ wr' = [wr EXCEPT ![t] = stem]
                /\ files' = [files EXCEPT ![stem] = [exists |-> TRUE, data |-> @.data]]
                /\ tpc' = [tpc EXCEPT ![t] = "copy"]
    /\ UNCHANGED <<image, loopVarPerIteration, ppc, auth, firstStatus, resp, manifest,
                   layers, retryCount, fetchCalls, loopIdx, successCount,
                   tokenExchanges, indexRequests, manifestRequests, result, warm,
                   downloaded, mainVars, pureVars, untarVars>>

\* copyTo, lines 432-452, and lines 386-391: the body is copied to the file
\* from offset 0, the byte count is compared with l.Size, the file is flushed
\* and closed, a success is counted and the task is done; downloaded records
\* the stem of a download that counted
TaskCopy(t) ==
    /\ ppc = "fetch"
    /\ tpc[t] = "copy"
    /\ files' = [files EXCEPT ![wr[t]] = Overwrite(@, rcv[t])]
    /\ successCount' = IF copyVerdict(Len(rcv[t]), LayerOf(t)) = Nil
                       THEN successCount + 1
                       ELSE successCount
    /\ downloaded' = IF copyVerdict(Len(rcv[t]), LayerOf(t)) = Nil
                      THEN downloaded \cup {wr[t]}
                      ELSE downloaded
    /\ wr' = [wr EXCEPT ![t] = NoStem]
    /\ rcv' = [rcv EXCEPT ![t] = <<>>]
    /\ tpc' = [tpc EXCEPT ![t] = "done"]
    /\ UNCHANGED <<image, loopVarPerIteration, ppc, auth, firstStatus, resp, manifest,
                   layers, retryCount, fetchCalls, loopIdx, tokenExchanges,
                   indexRequests, manifestRequests, blobGets, result, warm, mainVars, pureVars, untarVars>>

fetchVerdictAtLeastOne(count, n) == IF count = 0 /\ n > 0 THEN "layers" ELSE Nil

\* the verdict of fetchLayers after wg.Wait()
fetchVerdict(count, n) == IF count # n THEN "layers" ELSE Nil

\* lines 394-399 and 284-295: wg.Wait() returns, fetchLayers gives its
\* verdict, the retry loop goes round or ends and pullImage returns
Join ==
    /\ ppc = "fetch"
    /\ loopIdx = Len(layers)
    /\ \A t \in 1..Len(layers) : tpc[t] = "done"
    /\ IF fetchVerdict(successCount, Len(layers)) = Nil
       THEN /\ Return(Nil, [isNil |-> FALSE, list |-> layers])
            /\ UNCHANGED <<retryCount, fetchCalls, loopIdx, successCount, tpc>>
       ELSE /\ retryCount' = retryCount + 1
            /\ IF retryLoopContinues(retryCount + 1)
               THEN /\ BeginBatch
                    /\ UNCHANGED <<ppc, result>>
               ELSE /\ Return("layers", NilLayers)
                    /\ UNCHANGED <<fetchCalls, loopIdx, successCount, tpc>>
    /\ UNCHANGED <<files, image, loopVarPerIteration, auth, firstStatus, resp, manifest,
                   layers, rcv, wr, tokenExchanges, indexRequests, manifestRequests,
                   blobGets, warm, downloaded, mainVars, pureVars, untarVars>>

\* the program is run again: the cache directory is what the last run left
NewPull ==
    /\ ppc = "ret"
    /\ PullReset
    /\ warm' = Warm(files, image)
    /\ UNCHANGED <<files, image, loopVarPerIteration, mainVars, pureVars, untarVars>>

Next ==
    \/ PullStart
    \/ IndexResponse1
    \/ TokenResponse
    \/ IndexResponse2
    \/ ReadIndex
    \/ ManifestResponse
    \/ Spawn
    \/ \E t \in Tasks : TaskLookup(t)
    \/ \E t \in Tasks : TaskGet(t)
    \/ \E t \in Tasks : TaskCopy(t)
    \/ Join
    \/ NewPull

Spec == Init /\ [][Next]_vars


\* ------------------------------------------------------------------------
\* main
\* ------------------------------------------------------------------------

\* command lines: os.Args with the program name first
Argvs ==
    {<<"docker">>,
     <<"docker", "run", "alpine">>,
     <<"docker", "pull", "alpine", "sh">>,
     <<"docker", "run", "alpine", "sh">>,
     <<"docker", "run", "alpine", "sh", "-c", "exit 7">>}

\* exit codes the child command may end with
ChildCodes == {0, 1, 7, 127, 255}

\* what pullImage may return to main: no error, an error, or a panic
PullOutcomes == {Nil, "error", "panic"}

\* the exit status the parent of the process sees after os.Exit(code)
ExitStatus(code) == code % 256

ExitZero(code) ==
    /\ mpc' = "exited"
    /\ exitStatus' = 0

\* os.Exit: the process ends at once; deferred calls are not run
Exit(code) ==
    /\ mpc' = "exited"
    /\ exitStatus' = ExitStatus(code)

\* err.(*exec.ExitError): Run gives an ExitError when the child was started
\* and did not end with code 0
isExitError(c) == c.state = "signaled" \/ (c.state = "exited" /\ c.code # 0)

\* ExitError.ExitCode(): the child's code, -1 when a signal ended it
ExitCode(c) == IF c.state = "signaled" THEN -1 ELSE c.code

exitWithOne(c) == 1

\* the argument of os.Exit at line 369
mainExitCode(c) == ExitCode(c)

\* the deferred os.RemoveAll(chdir): the path is looked up from the root of
\* the process; after chroot it names nothing and nothing is removed
RemoveAll(r, dir) == IF r = "host" /\ dir = "exists" THEN "removed" ELSE dir

InitMain ==
    /\ files = [s \in Stems |-> NoFile]
    /\ image = <<>>
    /\ loopVarPerIteration = TRUE
    /\ ppc = "start"
    /\ auth = NilAuth
    /\ firstStatus = 0
    /\ resp = NoResp
    /\ manifest = NoManifest
    /\ layers = <<>>
    /\ retryCount = 0
    /\ fetchCalls = 0
    /\ loopIdx = 0
    /\ tpc = [t \in Tasks |-> "idle"]
    /\ rcv = [t \in Tasks |-> <<>>]
    /\ wr = [t \in Tasks |-> NoStem]
    /\ successCount = 0
    /\ tokenExchanges = 0
    /\ indexRequests = 0
    /\ manifestRequests = 0
    /\ blobGets = 0
    /\ result = NoResult
    /\ warm = FALSE
    /\ downloaded = {}
    /\ mpc = "start"
    /\ argv \in Argvs
    /\ debugCapabilities \in BOOLEAN
    /\ scratch = "none"
    /\ root = "host"
    /\ helper = FALSE
    /\ child = [state |-> "none", code |-> 0]
    /\ exitStatus = 0
    /\ PureIdle
    /\ UntarIdle

\* lines 272-285: the argument checks
MainArgs ==
    /\ mpc = "start"
    /\ IF Len(argv) < 4 \/ argv[2] # "run"
       THEN Exit(1)
       ELSE /\ mpc' = "pull"
            /\ UNCHANGED exitStatus
    /\ UNCHANGED <<argv, debugCapabilities, scratch, root, helper, child, pullVars, pureVars, untarVars>>

\* lines 288-291: pullImage (the actions of Spec) returns; a panic in it ends
\* the process with status 2
MainPull ==
    /\ mpc = "pull"
    /\ \E out \in PullOutcomes :
         IF out = "panic" THEN Exit(2)
         ELSE IF out # Nil THEN Exit(1)
         ELSE /\ mpc' = "devnull"
              /\ UNCHANGED exitStatus
    /\ UNCHANGED <<argv, debugCapabilities, scratch, root, helper, child, pullVars, pureVars, untarVars>>

\* lines 293-300: cmd has no stdio yet, so /dev/null is written
MainDevNull ==
    /\ mpc = "devnull"
    /\ \/ Exit(1)
       \/ /\ mpc' = "tempdir"
          /\ UNCHANGED exitStatus
    /\ UNCHANGED <<argv, debugCapabilities, scratch, root, helper, child, pullVars, pureVars, untarVars>>

\* lines 327-331: the scratch directory is made and its removal deferred; a
\* failure is printed and main goes on with chdir = ""
MainTempDir ==
    /\ mpc = "tempdir"
    /\ \E ok \in BOOLEAN : scratch' = IF ok THEN "exists" ELSE "none"
    /\ mpc' = "copy"
    /\ UNCHANGED <<argv, debugCapabilities, root, helper, child, exitStatus, pullVars, pureVars, untarVars>>

\* lines 333-344: with the debug flag ./docker-explorer is copied first and
\* a failure only printed; then /usr/local/bin/docker-explorer is copied
MainCopy ==
    /\ mpc = "copy"
    /\ \E first \in (IF debugCapabilities THEN BOOLEAN ELSE {FALSE}), ok \in BOOLEAN :
         /\ helper' = (first \/ ok)
         /\ IF ok
            THEN /\ mpc' = "chroot"
                 /\ UNCHANGED exitStatus
            ELSE Exit(1)
    /\ UNCHANGED <<argv, debugCapabilities, scratch, root, child, pullVars, pureVars, untarVars>>

\* lines 346-350 and setup_chroot: chroot, then chdir("/")
MainChroot ==
    /\ mpc = "chroot"
    /\ \E out \in (IF scratch = "exists" THEN {"ok", "chroot", "chdir"} ELSE {"chroot"}) :
         /\ root' = IF out = "chroot" THEN root ELSE "scratch"
         /\ IF out = "ok"
            THEN /\ mpc' = "run"
                 /\ UNCHANGED exitStatus
            ELSE Exit(1)
    /\ UNCHANGED <<argv, debugCapabilities, scratch, helper, child, pullVars, pureVars, untarVars>>

\* outcomes of cmd.Run(): the child could not be started, it ended with a
\* code, or a signal ended it
ChildOutcomes ==
    {[state |-> "failed", code |-> 0], [state |-> "signaled", code |-> 0]}
    \cup {[state |-> "exited", code |-> c] : c \in ChildCodes}

\* lines 365-372: the child runs; on an ExitError main calls os.Exit, else it
\* returns, the deferred RemoveAll runs and the process ends with status 0
MainRun ==
    /\ mpc = "run"
    /\ \E c \in ChildOutcomes :
         /\ child' = c
         /\ IF isExitError(c)
            THEN /\ Exit(mainExitCode(c))
                 /\ UNCHANGED scratch
            ELSE /\ scratch' = RemoveAll(root, scratch)
                 /\ Exit(0)
    /\ UNCHANGED <<argv, debugCapabilities, root, helper, pullVars, pureVars, untarVars>>

NextMain ==
    \/ MainArgs
    \/ MainPull
    \/ MainDevNull
    \/ MainTempDir
    \/ MainCopy
    \/ MainChroot
    \/ MainRun

SpecMain == InitMain /\ [][NextMain]_vars


\* ------------------------------------------------------------------------
\* The reference parser: lines 178-194 of pullImage for one reference
\* ------------------------------------------------------------------------

\* the variables of pullImage at rest
PullIdle ==
    /\ files = [s \in Stems |-> NoFile]
    /\ image = <<>>
    /\ loopVarPerIteration = TRUE
    /\ ppc = "start"
    /\ auth = NilAuth
    /\ firstStatus = 0
    /\ resp = NoResp
    /\ manifest = NoManifest
    /\ layers = <<>>
    /\ retryCount = 0
    /\ fetchCalls = 0
    /\ loopIdx = 0
    /\ tpc = [t \in Tasks |-> "idle"]
    /\ rcv = [t \in Tasks |-> <<>>]
    /\ wr = [t \in Tasks |-> NoStem]
    /\ successCount = 0
    /\ tokenExchanges = 0
    /\ indexRequests = 0
    /\ manifestRequests = 0
    /\ blobGets = 0
    /\ result = NoResult
    /\ warm = FALSE
    /\ downloaded = {}

\* the characters references are made of: a name character and the three
\* separators the parser looks for
RefAlphabet == {"a", "/", ".", ":"}

\* what a reference may begin with: nothing, the library namespace, the
\* default registry with and without it, another registry
RefPrefixes ==
    {<<>>,
     LibraryPrefix,
     DefaultRegistry \o <<"/">>,
     DefaultRegistry \o <<"/">> \o LibraryPrefix,
     <<"q", ".", "i", "/">> \o LibraryPrefix}

\* the references given to the parser, the empty one among them
ParserRefs == {p \o t : p \in RefPrefixes, t \in SeqsUpTo(RefAlphabet, MaxRefLen)}

InitParse ==
    /\ PullIdle
    /\ MainIdle
    /\ imageReference \in ParserRefs
    /\ parsed = NoParse
    /\ requested = "no"
    /\ manifestLayers = <<>>
    /\ dockerManifest = NoDecode
    /\ UntarIdle

\* line 178: the reference is parsed; the function has no error result
Sanitise ==
    /\ ~parsed.done
    /\ LET out == sanitiseImageReference(imageReference)
       IN  parsed' = [done |-> TRUE, ref |-> out.ref, registry |-> out.registry,
                      tag |-> out.tag]
    /\ UNCHANGED <<imageReference, requested, manifestLayers, dockerManifest,
                   pullVars, mainVars, untarVars>>

\* lines 179-194: the registry is looked up in Registries; when it is there
\* the query is built from the parsed reference and tag and the first index
\* request is sent, else pullImage returns its error
FirstRequest ==
    /\ parsed.done
    /\ requested = "no"
    /\ requested' = IF parsed.registry \in Registries THEN "sent" ELSE "error"
    /\ UNCHANGED <<imageReference, parsed, manifestLayers, dockerManifest,
                   pullVars, mainVars, untarVars>>

NextParse ==
    \/ Sanitise
    \/ FirstRequest

SpecParse == InitParse /\ [][NextParse]_vars


\* ------------------------------------------------------------------------
\* The manifest decoder: lines 254-260 of pullImage for one manifest body
\* ------------------------------------------------------------------------

\* the descriptors a manifest body may carry, with every form of digest text
DecoderDescriptors ==
    {[digest |-> [enc |-> e, sum |-> c], size |-> Len(c)] :
        e \in DigestForms, c \in LayerContents}

InitDecode ==
    /\ PullIdle
    /\ MainIdle
    /\ imageReference = <<>>
    /\ parsed = NoParse
    /\ requested = "no"
    /\ manifestLayers \in SeqsUpTo(DecoderDescriptors, MaxLayers)
    /\ dockerManifest = NoDecode
    /\ UntarIdle

\* the error json.Unmarshal returns: that of the first element UnmarshalJSON
\* rejects, or none
decodeError(ls) ==
    IF \E i \in 1..Len(ls) : ls[i].err # Nil
    THEN "unexpected format for digest"
    ELSE Nil

\* lines 256-260: json.Unmarshal calls UnmarshalJSON for each element of the
\* layers array; the layers are kept when none of the calls returned an error
Unmarshal ==
    /\ ~dockerManifest.done
    /\ LET ls == DecodeLayers(manifestLayers)
       IN  dockerManifest' =
             [done |-> TRUE,
              err |-> decodeError(ls),
              Layers |-> IF decodeError(ls) = Nil THEN ls ELSE <<>>]
    /\ UNCHANGED <<imageReference, parsed, requested, manifestLayers, pullVars, mainVars, untarVars>>

NextDecode == Unmarshal

SpecDecode == InitDecode /\ [][NextDecode]_vars


\* ------------------------------------------------------------------------
\* untar: one call, extracting one archive into dst.  The layers of an image
\* are extracted one after the other into the same directory, so the entries
\* of the archive stand for the entries of the layers in their order.
\* ------------------------------------------------------------------------

InitUntar ==
    /\ PullIdle
    /\ MainIdle
    /\ PureIdle
    /\ tarEntries \in SeqsUpTo(TarEntries, MaxEntries)
    /\ tarPos = 0
    /\ fsys = [p \in UntarPaths |-> NoNode]
    /\ untarResult = "running"
    /\ failedOps = FALSE

\* the entry tr.Next() hands out next, and line 132
header == tarEntries[tarPos + 1]

target == filepathJoin(UntarDst, header.name)

\* a file written from offset 0 through a descriptor opened without O_TRUNC
writeAt(node, bytes) ==
    [kind |-> "file",
     data |-> Overwrite([exists |-> TRUE, data |-> node.data], bytes).data,
     link |-> <<>>]

\* an operation failed and untar returns its error
untarFails ==
    /\ failedOps' = TRUE
    /\ untarResult' = "err"

\* lines 115-128: gzip.NewReader or tr.Next returns an error other than EOF
UntarReadError ==
    /\ untarResult = "running"
    /\ untarResult' = "err"
    /\ UNCHANGED <<tarEntries, tarPos, fsys, failedOps, pullVars, mainVars, pureVars>>

\* lines 123-126: tr.Next returns io.EOF and untar returns nil
UntarEOF ==
    /\ untarResult = "running"
    /\ tarPos = Len(tarEntries)
    /\ untarResult' = Nil
    /\ UNCHANGED <<tarEntries, tarPos, fsys, failedOps, pullVars, mainVars, pureVars>>

\* lines 135-140: a directory entry.  Nothing is done when os.Stat finds
\* something at the target; else MkdirAll makes the directory, and fails when
\* the target is a symlink that leads nowhere
UntarDir ==
    /\ untarResult = "running"
    /\ tarPos < Len(tarEntries)
    /\ header.typeflag = "dir"
    /\ tarPos' = tarPos + 1
    /\ IF statOk(fsys, target)
       THEN UNCHANGED <<fsys, failedOps, untarResult>>
       ELSE IF fsys[target].kind = "none"
       THEN \E ok \in BOOLEAN :
              IF ok
              THEN /\ fsys' = [fsys EXCEPT ![target] = [NoNode EXCEPT !.kind = "dir"]]
                   /\ UNCHANGED <<failedOps, untarResult>>
              ELSE /\ untarFails
                   /\ UNCHANGED fsys
       ELSE /\ untarFails
            /\ UNCHANGED fsys
    /\ UNCHANGED <<tarEntries, pullVars, mainVars, pureVars>>

\* lines 141-145: a symlink entry.  os.Symlink fails when something is at
\* the target already; its result is dropped, and the err tested is the nil
\* one of tr.Next, so untar goes on either way
UntarSymlink ==
    /\ untarResult = "running"
    /\ tarPos < Len(tarEntries)
    /\ header.typeflag = "symlink"
    /\ tarPos' = tarPos + 1
    /\ \E ok \in BOOLEAN :
         IF ok /\ fsys[target].kind = "none"
         THEN /\ fsys' = [fsys EXCEPT ![target] =
                            [kind |-> "link", data |-> <<>>, link |-> header.linkname]]
              /\ UNCHANGED failedOps
         ELSE /\ failedOps' = TRUE
              /\ UNCHANGED fsys
    /\ UNCHANGED <<tarEntries, untarResult, pullVars, mainVars, pureVars>>

\* lines 146-155: a regular file.  OpenFile follows symlinks, creates the
\* file when it is not there and does not truncate one that is; io.Copy
\* writes the payload from offset 0 and may fail part way
UntarReg ==
    /\ untarResult = "running"
    /\ tarPos < Len(tarEntries)
    /\ header.typeflag = "reg"
    /\ tarPos' = tarPos + 1
    /\ LET r == resolve(fsys, target)
       IN  IF kindAt(fsys, r) \in {"eloop", "dir"}
           THEN /\ untarFails
                /\ UNCHANGED fsys
           ELSE \/ /\ untarFails
                   /\ UNCHANGED fsys
                \/ /\ untarFails
                   /\ \E n \in 0..(Len(header.payload) - 1) :
                        fsys' = [fsys EXCEPT ![r] = writeAt(@, SubSeq(header.payload, 1, n))]
                \/ /\ fsys' = [fsys EXCEPT ![r] = writeAt(@, header.payload)]
                   /\ UNCHANGED <<failedOps, untarResult>>
    /\ UNCHANGED <<tarEntries, pullVars, mainVars, pureVars>>

NextUntar ==
    \/ UntarReadError
    \/ UntarEOF
    \/ UntarDir
    \/ UntarSymlink
    \/ UntarReg

SpecUntar == InitUntar /\ [][NextUntar]_vars


\* ------------------------------------------------------------------------
\* Properties
\* ------------------------------------------------------------------------

\* C1: a pull that begins with every layer of the manifest in the cache, each
\* file's SHA-256 being its descriptor's digest, sends no blob GET: every
\* layer task leaves the lookup done, none goes on to download.
C1_WarmPullSendsNoBlobGet ==
    warm => (blobGets = 0 /\ \A t \in Tasks : tpc[t] \notin {"get", "copy"})

\* C2: every file of the cache directory that no layer task holds open for
\* writing has content whose SHA-256 is the file's name stem.
C2_CacheIsContentAddressed ==
    \A s \in Stems :
        (files[s].exists /\ \A t \in Tasks : wr[t] # s) => HexSum(files[s].data) = s

\* C3: a layer task that has received bytes whose SHA-256 is not the digest
\* of its descriptor ends without counting a success and leaves no file for
\* that layer in the cache.
C3_DigestMismatchFailsAndDiscards ==
    [][\A t \in Tasks :
         (tpc[t] = "copy" /\ tpc'[t] = "done" /\ DigestOf(rcv[t]) # LayerOf(t).Digest)
            => (successCount' = successCount /\ ~files'[wr[t]].exists)]_vars

\* C4: when the child was started and ended by itself with code c, the
\* process exits with status c.
C4_ExitCodeIsTheChilds ==
    (mpc = "exited" /\ child.state = "exited") => exitStatus = child.code

C4_Witness ==
    mpc = "exited" /\ child.state = "exited" /\ child.code = 7 /\ exitStatus = 7

\* C5: when the process has exited after the scratch directory was made, the
\* scratch directory is no longer on the host.
C5_ScratchRemovedAtExit ==
    (mpc = "exited" /\ scratch # "none") => scratch = "removed"

\* C6: when the first index request was answered 401 and the re-sent one is
\* answered 401 again, the pull has made one token exchange and two index
\* requests, fails, and sends no concrete-manifest or blob request.
C6_Second401IsFatal ==
    (firstStatus = 401 /\ resp.status = 401) =>
        /\ tokenExchanges = 1
        /\ indexRequests = 2
        /\ manifestRequests = 0
        /\ blobGets = 0
        /\ ppc \in {"readIndex", "ret"}
        /\ ppc = "ret" => result.err # Nil

\* C7: the layer list a successful pullImage returns is the layers array of
\* the concrete manifest: as long, with the same digest and size at each place.
C7_LayersInManifestOrder ==
    (ppc = "ret" /\ result.err = Nil) =>
        /\ ~result.layers.isNil
        /\ Len(result.layers.list) = Len(image)
        /\ \A i \in 1..Len(image) :
             /\ result.layers.list[i].Digest = image[i].digest
             /\ result.layers.list[i].Size = image[i].size

C7_Witness ==
    /\ ppc = "ret"
    /\ result.err = Nil
    /\ Len(image) = 2
    /\ image[1] # image[2]
    /\ fetchCalls > 1

\* C8: in a build that gives every layer task its own descriptor, no two
\* layer tasks have the same cache file open for writing at the same time.
C8_OneWriterPerCacheFile ==
    loopVarPerIteration =>
        \A t1, t2 \in Tasks :
            (t1 # t2 /\ wr[t1] # NoStem /\ wr[t2] # NoStem) => wr[t1] # wr[t2]

\* the places of the entries of an index that match the host on both fields
HostEntries(index) ==
    {i \in 1..Len(index) :
        index[i].platform.os = GOOS /\ index[i].platform.architecture = GOARCH}

\* C9: the entry selected from an index is the one at the least place whose
\* os and architecture are both the host's; an index without such an entry
\* makes the pull fail with the no-match error, and then no concrete-manifest
\* and no blob request has been sent.
C9_FirstHostEntrySelected ==
    /\ (ppc = "manifest" \/ (ppc = "ret" /\ result.err \in {"not implemented", "unsupported"}))
          => /\ HostEntries(resp.index) # {}
             /\ \A j \in HostEntries(resp.index) : manifest.digest <= j
             /\ manifest = resp.index[manifest.digest]
             /\ manifest.digest \in HostEntries(resp.index)
    /\ (ppc = "ret" /\ result.err = "nomatch")
          => /\ HostEntries(resp.index) = {}
             /\ manifestRequests = 0
             /\ blobGets = 0
    /\ (ppc = "ret" /\ resp.ct \in AcceptedIndexTypes /\ HostEntries(resp.index) = {})
          => result.err = "nomatch"

C9_Witness ==
    /\ ppc = "manifest"
    /\ Len(resp.index) = 2
    /\ resp.index[1].platform.os = GOOS
    /\ resp.index[1].platform.architecture # GOARCH
    /\ manifest.digest = 2

\* C10: a pull calls fetchLayers at most 5 times; it calls it again only
\* after a batch in which some layer failed; it returns the layers after the
\* first batch in which all succeeded, and after 5 failed batches it returns
\* the layer-fetch error and no layer list.
C10_BoundedBatchRetry ==
    /\ [](/\ fetchCalls <= 5
          /\ (ppc = "ret" /\ fetchCalls > 0) =>
                /\ result.err \in {Nil, "layers"}
                /\ result.err = Nil <=> successCount = Len(layers)
                /\ result.err = Nil => ~result.layers.isNil
                /\ result.err = "layers" => (fetchCalls = 5 /\ result.layers.isNil))
    /\ [][/\ (fetchCalls' > fetchCalls /\ fetchCalls > 0)
               => (fetchCalls' = fetchCalls + 1 /\ successCount # Len(layers))
          /\ (ppc = "fetch" /\ ppc' = "ret" /\ fetchCalls < 5)
               => result'.err = Nil]_vars

C10_Witness ==
    /\ ppc = "ret"
    /\ result.err = "layers"
    /\ fetchCalls = 5
    /\ Len(layers) = 2

\* C11: in a build that gives every layer task its own descriptor, a lookup
\* for a layer that no other task of the batch shares, whose download counted
\* a success in an earlier batch of the same pull and whose file still holds
\* the blob, is a hit: the task ends there and sends no blob GET.
C11_RetryReusesDownloads ==
    [][\A t \in Tasks :
         (/\ loopVarPerIteration
          /\ ppc = "fetch"
          /\ tpc[t] = "lookup"
          /\ tpc'[t] # "lookup"
          /\ \A u \in (1..Len(layers)) \ {t} : layers[u].Sha256Sum # layers[t].Sha256Sum
          /\ layers[t].Sha256Sum \in downloaded
          /\ DigestOf(files[layers[t].Sha256Sum].data) = layers[t].Digest)
            => (tpc'[t] = "done" /\ successCount' = successCount + 1)]_vars

\* C12: a layer task that has received a number of bytes other than the
\* descriptor's size ends without counting a success, and the file it leaves
\* is not a hit for hasLayer; a lookup is a hit only for a file that holds
\* exactly size bytes.
C12_SizeMismatchFailsAndIsNoHit ==
    [][\A t \in Tasks :
         /\ (tpc[t] = "copy" /\ tpc'[t] = "done" /\ Len(rcv[t]) # LayerOf(t).Size)
               => /\ successCount' = successCount
                  /\ hasLayer(files', LayerOf(t)) # Nil
                  /\ hasLayer(files', [LayerOf(t) EXCEPT !.Sha256Sum = wr[t]]) # Nil
         /\ (ppc = "fetch" /\ tpc[t] = "lookup" /\ tpc'[t] = "done")
               => /\ files[LayerOf(t).Sha256Sum].exists
                  /\ Len(files[LayerOf(t).Sha256Sum].data) = LayerOf(t).Size]_vars

C12_Witness ==
    \E t \in Tasks :
        /\ loopVarPerIteration
        /\ fetchCalls > 1
        /\ tpc[t] = "get"
        /\ files[layers[t].Sha256Sum].exists
        /\ Len(files[layers[t].Sha256Sum].data) # layers[t].Size
        /\ layers[t].Sha256Sum \notin downloaded

\* C13: when a signal ended the child, or the child could not be run, the
\* process exits with status 1.
C13_AbnormalChildExitsOne ==
    (mpc = "exited" /\ child.state \in {"signaled", "failed"}) => exitStatus = 1

\* C14: a pull that has selected an index entry of media type OCI image
\* manifest v1 goes on as for a Docker v2 manifest: it does not return before
\* the concrete manifest has been requested, and the media-type errors are
\* returned only for entries of other media types.
C14_OciManifestHandledAsDockerV2 ==
    /\ (ppc = "ret" /\ manifest.mediaType = OCIImageTypeManifestV1)
          => manifestRequests > 0
    /\ (ppc = "ret" /\ result.err \in {"not implemented", "unsupported"})
          => manifest.mediaType
                \notin {DockerImageTypeDistributionManifestV2, OCIImageTypeManifestV1}

\* C15: when the answer to the first index request triggers the negotiation
\* and carries no Www-Authenticate header, or one that does not match the
\* Bearer form, pullImage returns an error value (it does not panic), and
\* neither a realm request nor a second index request is sent.
C15_ChallengeFailureIsAnError ==
    /\ (ppc = "ret" /\ resp.status # 0 /\ indexRequests = 1
            /\ resp.www \in {"absent", "malformed"})
          => (result.err \notin {Nil, "panic"} /\ tokenExchanges = 0)
    /\ (ppc \in {"token", "index2"}) => resp.www = "bearer"

\* C16: when the realm request fails, or its body is not JSON or is JSON
\* without a token, pullImage returns an error value (it does not panic) and
\* the index request is not sent again: it is sent again only with a token.
C16_TokenFailureIsAnError ==
    /\ (ppc = "index2") => auth.Token # ""
    /\ (ppc = "ret" /\ tokenExchanges = 1 /\ indexRequests = 1)
          => result.err \notin {Nil, "panic"}

\* the place of the first "/" of r, 0 when there is none
SlashAt(r) ==
    IF \E i \in 1..Len(r) : r[i] = "/"
    THEN CHOOSE i \in 1..Len(r) : r[i] = "/" /\ \A j \in 1..(i - 1) : r[j] # "/"
    ELSE 0

\* r names its registry: it has a "/" and a "." or ":" before the first one
NamesRegistry(r) ==
    SlashAt(r) > 0 /\ \E j \in 1..(SlashAt(r) - 1) : r[j] \in {".", ":"}

RegistryOf(r) == IF NamesRegistry(r) THEN SubSeq(r, 1, SlashAt(r) - 1) ELSE DefaultRegistry

RepositoryPartOf(r) == IF NamesRegistry(r) THEN SubSeq(r, SlashAt(r) + 1, Len(r)) ELSE r

StartsWithLibrary(x) ==
    Len(x) >= Len(LibraryPrefix) /\ \A i \in 1..Len(LibraryPrefix) : x[i] = LibraryPrefix[i]

\* the repository part of r with library/ put before it where the rule says so
NamedOf(r) ==
    IF RegistryOf(r) = DefaultRegistry /\ ~StartsWithLibrary(RepositoryPartOf(r))
    THEN LibraryPrefix \o RepositoryPartOf(r)
    ELSE RepositoryPartOf(r)

\* C17: for a non-empty reference r the registry returned is the text before
\* the first "/" exactly when there is a "/" and that text has a "." or ":",
\* else docker.io; the repository part is the rest of r, or the whole of r;
\* library/ is put before it exactly when the registry is docker.io and the
\* part does not begin with library/; the repository and tag returned are a
\* split of that text.
C17_RegistryAndNamespaceRules ==
    (parsed.done /\ imageReference # <<>>) =>
        /\ parsed.registry = RegistryOf(imageReference)
        /\ \/ NamedOf(imageReference) = parsed.ref
           \/ NamedOf(imageReference) = parsed.ref \o <<":">> \o parsed.tag

C17_Witness ==
    /\ parsed.done
    /\ requested = "error"
    /\ imageReference = <<"q", ".", "i", "/">> \o LibraryPrefix \o <<"a", ":", "a">>
    /\ parsed.registry = <<"q", ".", "i">>
    /\ parsed.ref = LibraryPrefix \o <<"a">>

\* the place of the last ":" of x, 0 when there is none
LastColon(x) ==
    IF \E i \in 1..Len(x) : x[i] = ":"
    THEN CHOOSE i \in 1..Len(x) : x[i] = ":" /\ \A j \in (i + 1)..Len(x) : x[j] # ":"
    ELSE 0

\* C18: the repository and the tag returned are the texts before and after
\* the last ":" of the reference without its registry; when that text has no
\* ":" the repository is the whole of it and the tag is latest.
C18_TagSplitAtLastColon ==
    parsed.done =>
        LET n == NamedOf(imageReference)
            k == LastColon(n)
        IN  IF k = 0
            THEN parsed.ref = n /\ parsed.tag = LatestTag
            ELSE parsed.ref = SubSeq(n, 1, k - 1) /\ parsed.tag = SubSeq(n, k + 1, Len(n))

\* C19: the parse of the empty reference fails: it returns no repository,
\* registry and tag, and the pull sends no index request for it.
C19_EmptyReferenceIsRejected ==
    (imageReference = <<>>) => (~parsed.done /\ requested # "sent")

\* C20: a manifest with a descriptor whose digest is not "sha256:" followed
\* by 64 lowercase hex characters is rejected by the decoder, so the layer_id
\* of every decoded layer, from which the cache file name is built, is 64
\* lowercase hex characters.
C20_DigestFormIsChecked ==
    dockerManifest.done =>
        /\ (\E i \in 1..Len(manifestLayers) : manifestLayers[i].digest.enc # "sha256:hex")
              => dockerManifest.err # Nil
        /\ \A i \in 1..Len(dockerManifest.Layers) :
              dockerManifest.Layers[i].Sha256Sum.enc = "hex"

\* C21: a run given fewer than 4 arguments (the program name counted), or
\* whose first argument is not run, does nothing but exit with status 1: it
\* never gets to the pull, makes no scratch directory, does not chroot and
\* starts no child.
C21_BadArgumentsExitOne ==
    (Len(argv) < 4 \/ argv[2] # "run") =>
        /\ mpc \in {"start", "exited"}
        /\ mpc = "exited" => exitStatus = 1
        /\ indexRequests = 0
        /\ scratch = "none"
        /\ root = "host"
        /\ child.state = "none"

C21_Witness ==
    /\ mpc = "exited"
    /\ argv = <<"docker", "pull", "alpine", "sh">>
    /\ exitStatus = 1

\* the entries handled so far that are regular files written at path p
RegEntriesAt(p) ==
    {i \in 1..tarPos :
        /\ tarEntries[i].typeflag = "reg"
        /\ filepathJoin(UntarDst, tarEntries[i].name) = p}

\* C22: when no operation has failed and no symlink is among the entries
\* handled, every path written as a regular file holds exactly the payload
\* of the last entry handled for that path.
C22_LaterEntryShadowsEarlier ==
    (~failedOps /\ \A i \in 1..tarPos : tarEntries[i].typeflag # "symlink") =>
        \A p \in UntarPaths :
            \A i \in RegEntriesAt(p) :
                (\A j \in RegEntriesAt(p) : j <= i)
                    => (fsys[p].kind = "file" /\ fsys[p].data = tarEntries[i].payload)

\* C26: untar returns nil only when no filesystem operation for an entry,
\* directory, regular file or symlink, has failed.
C26_UntarErrorsPropagate ==
    (untarResult = Nil) => ~failedOps

\* C29: nothing is created or written at a path outside dst.
C29_ExtractionStaysInDst ==
    \A p \in UntarPaths :
        (fsys[p].kind # "none") => (Len(p) > Len(UntarDst) /\ SubSeq(p, 1, Len(UntarDst)) = UntarDst)

\* C23: after a download that copyTo reports as successful, by a task that
\* has its own descriptor, shared with no other task, the cache file
\* holds exactly the bytes received, whatever it held before.
C23_CacheWriteTruncates ==
    [][\A t \in Tasks :
         (/\ loopVarPerIteration
          /\ tpc[t] = "copy"
          /\ tpc'[t] = "done"
          /\ copyVerdict(Len(rcv[t]), LayerOf(t)) = Nil
          /\ \A u \in (1..Len(layers)) \ {t} : layers[u].Sha256Sum # layers[t].Sha256Sum)
            => files'[wr[t]].data = rcv[t]]_vars

\* C24: the child is started only in a process that has the helper in the
\* scratch directory and has chrooted into it; a process that ends without
\* having started the child, because the arguments, the pull, the copy,
\* chroot or chdir failed, exits with status 1.
C24_IsolationBeforeExecution ==
    /\ (child.state # "none") => (helper /\ root = "scratch" /\ scratch = "exists")
    /\ (mpc = "run") => (helper /\ root = "scratch" /\ scratch = "exists")
    /\ (mpc = "exited" /\ child.state = "none") => exitStatus = 1

\* C25: a blob GET is sent only inside fetchLayers, after the one request for
\* the concrete manifest; that request is sent only for an index response
\* whose Content-Type is the Docker manifest list v2 or the OCI image index
\* v1 type and with the platform's entry selected, and fetchLayers is first
\* called with the decoded layers of the manifest.  An index response with
\* any other Content-Type, or none, ends the pull with the content-type
\* error, and a registry that is not in the table ends it before any
\* request; in both cases no manifest request and no blob GET is sent.
C25_PullProtocolOrder ==
    /\ [](/\ (blobGets > 0) =>
                (manifestRequests = 1 /\ indexRequests = 2 /\ fetchCalls >= 1)
          /\ (ppc = "ret" /\ result.err \in {"content-type", "registry"}) =>
                (manifestRequests = 0 /\ blobGets = 0 /\ fetchCalls = 0 /\ result.layers.isNil)
          /\ (ppc = "ret" /\ result.err = "registry") => indexRequests = 0)
    /\ [][/\ (manifestRequests' > manifestRequests) =>
                /\ resp.ct \in {DockerImageTypeDistributionListManifestV2, OciImageIndexV1}
                /\ manifest' = getDigestForSystem(resp.index)
                /\ manifest' # NoManifest
                /\ manifestRequests = 0
          /\ (fetchCalls' > fetchCalls /\ fetchCalls = 0) =>
                /\ ppc = "manifest"
                /\ manifestRequests = 1
                /\ Len(layers') = Len(image)
                /\ \A i \in 1..Len(layers') : layers'[i].err = Nil
          /\ (blobGets' > blobGets) => (ppc = "fetch" /\ fetchCalls >= 1)
          /\ (/\ ppc = "readIndex"
              /\ ppc' # "readIndex"
              /\ resp.ct \notin {DockerImageTypeDistributionListManifestV2, OciImageIndexV1}) =>
                (ppc' = "ret" /\ result'.err = "content-type")
          /\ (ppc = "start" /\ ppc' = "ret") => result'.err = "registry"]_vars

C25_Witness ==
    /\ ppc = "ret"
    /\ result.err = "content-type"
    /\ resp.ct = "missing"
    /\ indexRequests = 2
    /\ blobGets = 0

C28_JoinThenVerdict ==
    /\ [](/\ (ppc = "fetch") =>
                successCount <= Cardinality({t \in 1..Len(layers) : tpc[t] = "done"})
          /\ (ppc = "ret" /\ fetchCalls > 0 /\ result.err = Nil) =>
                /\ successCount = Len(layers)
                /\ \A t \in 1..Len(layers) : tpc[t] = "done"
          /\ (ppc = "ret" /\ fetchCalls > 0 /\ Len(layers) = 0) =>
                (result.err = Nil /\ fetchCalls = 1))
    /\ [][/\ (ppc = "fetch" /\ (ppc' = "ret" \/ fetchCalls' > fetchCalls)) =>
                /\ loopIdx = Len(layers)
                /\ \A t \in 1..Len(layers) : tpc[t] = "done"
                /\ (ppc' = "ret" /\ result'.err = Nil) <=> successCount = Len(layers)
          /\ (ppc = "fetch" /\ fetchCalls' = fetchCalls) =>
                /\ successCount' \in {successCount, successCount + 1}
                /\ (successCount' = successCount + 1) =>
                      \E t \in 1..Len(layers) :
                          /\ tpc[t] # "done"
                          /\ tpc'[t] = "done"
                          /\ \A u \in Tasks \ {t} : tpc'[u] = tpc[u]
          /\ \A t \in Tasks :
                (ppc = "fetch" /\ tpc[t] = "done" /\ fetchCalls' = fetchCalls) =>
                    tpc'[t] = "done"]_vars

C28_Witness ==
    /\ ppc = "ret"
    /\ result.err = Nil
    /\ fetchCalls = 2
    /\ Len(layers) = 2
    /\ successCount = 2
    /\ blobGets >= 3

====
